---- MODULE Spec2Model ----
(***************************************************************************)
(* SSE normalizing proxy, docker/centurion-base/sse-proxy.py.              *)
(*                                                                         *)
(* A byte string (Python bytes) is a sequence of bytes and a text (Python  *)
(* str) is a sequence of characters.  An ASCII byte and the character it   *)
(* encodes are both written as the same one-character string.  The bytes   *)
(* above 0x7F of the model are "xC3", "xEF", "xBF", "xBD" and "xFF"; the   *)
(* characters above U+007F are the ones these bytes can encode, written    *)
(* "U+00FF", "U+FFFD", ...                                                 *)
(***************************************************************************)
EXTENDS Integers, Sequences, FiniteSets, TLC

VARIABLES
    MODEL_NAME,   \* the replacement model name (text), "" when not configured
    arg,          \* SpecFix: the bytes fix_sse_line is called on
    once,         \* SpecFix: the outcome of fix_sse_line(arg)
    twice,        \* SpecFix: the outcome of fix_sse_line on the bytes of once
    fpc,          \* SpecFix: "call", "returned", "again" or "raised"
    upstream,     \* the bytes of the upstream body read from resp so far
    resp_closed,  \* resp.close() has run
    saw_done,     \* _stream_sse's local flag
    wfile,        \* every byte written to the client so far
    client_open,  \* FALSE once a write to the client has failed
    pc,           \* _stream_sse: "stream" in its loop, "done" or "aborted" once it
                  \* has returned, "raised" once an exception has left it;
                  \* _proxy: "proxy" on entry, "urlopen", then "error", "failure"
                  \* or "respond", and "passthrough" or "stream"
    request,      \* SpecProxy: the inbound request, its method and its body
    body,         \* SpecProxy: _proxy's local, the body to forward
    opened,       \* SpecProxy: the requests sent to the upstream so far
    resp,         \* SpecProxy: what the upstream answered to the last of them
    heads,        \* SpecProxy: the status lines and header blocks sent to the
                  \* client so far
    workers       \* SpecThreads: the state of every handler thread

vars == <<MODEL_NAME, arg, once, twice, fpc,
          upstream, resp_closed, saw_done, wfile, client_open, pc,
          request, body, opened, resp, heads, workers>>

fixvars == <<arg, once, twice, fpc>>
streamvars == <<upstream, resp_closed, saw_done, wfile, client_open, pc>>
proxyvars == <<request, body, opened, resp, heads>>

---------------------------------------------------------------------------
(* Sequences of bytes or characters.                                       *)

\* bytes.startswith / str.startswith
StartsWith(s, prefix) ==
    /\ Len(s) >= Len(prefix)
    /\ SubSeq(s, 1, Len(prefix)) = prefix

\* s[n:]
From(s, n) == SubSeq(s, n + 1, Len(s))

\* The element of a set of one element.  Only({e(x) : x \in {value}}) is e
\* with x assigned value, computed once.
Only(set) == CHOOSE x \in set : TRUE

---------------------------------------------------------------------------
(* UTF-8, on the bytes of the model.  "xC3" leads a two-byte sequence,     *)
(* "xEF" a three-byte sequence, "xBF" and "xBD" are continuation bytes and *)
(* "xFF" is a byte no UTF-8 sequence contains.                             *)

HighBytes == {"xC3", "xEF", "xBF", "xBD", "xFF"}
Continuation == {"xBF", "xBD"}
ReplacementChar == "U+FFFD"

\* The character a complete sequence encodes.
CodePoint(seq) ==
    CASE seq = <<"xC3", "xBF">> -> "U+00FF"
      [] seq = <<"xC3", "xBD">> -> "U+00FD"
      [] seq = <<"xEF", "xBF", "xBD">> -> "U+FFFD"
      [] seq = <<"xEF", "xBF", "xBF">> -> "U+FFFF"
      [] seq = <<"xEF", "xBD", "xBF">> -> "U+FF7F"
      [] seq = <<"xEF", "xBD", "xBD">> -> "U+FF7D"

NonAscii == {"U+00FF", "U+00FD", "U+FFFD", "U+FFFF", "U+FF7F", "U+FF7D"}

\* The UTF-8 encoding of one character.
Utf8(c) ==
    CASE c = "U+00FF" -> <<"xC3", "xBF">>
      [] c = "U+00FD" -> <<"xC3", "xBD">>
      [] c = "U+FFFD" -> <<"xEF", "xBF", "xBD">>
      [] c = "U+FFFF" -> <<"xEF", "xBF", "xBF">>
      [] c = "U+FF7F" -> <<"xEF", "xBD", "xBF">>
      [] c = "U+FF7D" -> <<"xEF", "xBD", "xBD">>
      [] OTHER -> <<c>>

\* The least position from i on of an element of s that is in set, Len(s) + 1
\* when there is none.
Find(s, i, set) ==
    CHOOSE k \in i..(Len(s) + 1) :
        /\ k > Len(s) \/ s[k] \in set
        /\ \A m \in i..(k - 1) : s[m] \notin set

\* bytes.decode("utf-8", errors="replace") from byte i on: a run of ASCII bytes
\* is the same run of characters, a complete sequence is its character, and
\* every maximal ill-formed part of a sequence becomes one U+FFFD.
RECURSIVE DecodeFrom(_, _)
DecodeFrom(b, i) ==
    LET j == Find(b, i, HighBytes) IN
    IF i > Len(b) THEN <<>>
    ELSE IF j > i THEN SubSeq(b, i, j - 1) \o DecodeFrom(b, j)
    ELSE IF b[i] = "xC3" /\ i + 1 <= Len(b) /\ b[i + 1] \in Continuation
        THEN <<CodePoint(SubSeq(b, i, i + 1))>> \o DecodeFrom(b, i + 2)
    ELSE IF b[i] = "xEF" /\ i + 1 <= Len(b) /\ b[i + 1] \in Continuation
        THEN IF i + 2 <= Len(b) /\ b[i + 2] \in Continuation
             THEN <<CodePoint(SubSeq(b, i, i + 2))>> \o DecodeFrom(b, i + 3)
             ELSE <<ReplacementChar>> \o DecodeFrom(b, i + 2)
    ELSE <<ReplacementChar>> \o DecodeFrom(b, i + 1)

decode(b) == DecodeFrom(b, 1)

\* str.encode("utf-8") from character i on
RECURSIVE EncodeFrom(_, _)
EncodeFrom(s, i) ==
    LET j == Find(s, i, NonAscii) IN
    IF i > Len(s) THEN <<>>
    ELSE IF j > i THEN SubSeq(s, i, j - 1) \o EncodeFrom(s, j)
    ELSE Utf8(s[i]) \o EncodeFrom(s, i + 1)

encode(s) == EncodeFrom(s, 1)

---------------------------------------------------------------------------
(* JSON values as json.loads builds them: None, bool, int, str, list and   *)
(* dict (a dict keeps its keys in insertion order).  The JSON texts of the *)
(* model have no fraction or exponent in a number, no NaN or Infinity, and *)
(* no escape in a string other than \" \\ \/ \n \r \t and the \uXXXX of    *)
(* the characters of the model.                                            *)

JNone == [t |-> "None"]
JBool(b) == [t |-> "bool", b |-> b]
JInt(digits) == [t |-> "int", s |-> digits]
JStr(s) == [t |-> "str", s |-> s]
JList(items) == [t |-> "list", items |-> items]
JDict(items) == [t |-> "dict", items |-> items]

Whitespace == {" ", "\t", "\n", "\r"}
Digits == {"0", "1", "2", "3", "4", "5", "6", "7", "8", "9"}

\* The character at position i of s; "EOF", which is no character, past the end.
At(s, i) == IF 1 <= i /\ i <= Len(s) THEN s[i] ELSE "EOF"

Fail == [ok |-> FALSE]
Ok(v, i) == [ok |-> TRUE, v |-> v, i |-> i]

RECURSIVE SkipWhitespace(_, _)
SkipWhitespace(s, i) ==
    IF At(s, i) \in Whitespace THEN SkipWhitespace(s, i + 1) ELSE i

\* \uXXXX of a character above U+007F, as json.dumps writes it.
UnicodeEscape(c) ==
    CASE c = "U+00FF" -> <<"0", "0", "f", "f">>
      [] c = "U+00FD" -> <<"0", "0", "f", "d">>
      [] c = "U+FFFD" -> <<"f", "f", "f", "d">>
      [] c = "U+FFFF" -> <<"f", "f", "f", "f">>
      [] c = "U+FF7F" -> <<"f", "f", "7", "f">>
      [] c = "U+FF7D" -> <<"f", "f", "7", "d">>

LowerHex(h) ==
    CASE h = "A" -> "a" [] h = "B" -> "b" [] h = "C" -> "c"
      [] h = "D" -> "d" [] h = "E" -> "e" [] h = "F" -> "f"
      [] OTHER -> h

\* json.decoder.py_scanstring from the character after the opening quote.
RECURSIVE ScanString(_, _, _)
ScanString(s, i, acc) ==
    LET c == At(s, i) IN
    IF c = "EOF" \/ c \in {"\n", "\r", "\t"} THEN Fail
    ELSE IF c = "\"" THEN Ok(acc, i + 1)
    ELSE IF c # "\\" THEN ScanString(s, i + 1, Append(acc, c))
    ELSE
        LET e == At(s, i + 1) IN
        IF e \in {"\"", "\\", "/"} THEN ScanString(s, i + 2, Append(acc, e))
        ELSE IF e = "n" THEN ScanString(s, i + 2, Append(acc, "\n"))
        ELSE IF e = "r" THEN ScanString(s, i + 2, Append(acc, "\r"))
        ELSE IF e = "t" THEN ScanString(s, i + 2, Append(acc, "\t"))
        ELSE IF e = "u" /\ i + 5 <= Len(s) THEN
            LET hex == [n \in 1..4 |-> LowerHex(s[i + 1 + n])] IN
            IF \E ch \in NonAscii : UnicodeEscape(ch) = hex
            THEN ScanString(s, i + 6,
                     Append(acc, CHOOSE ch \in NonAscii : UnicodeEscape(ch) = hex))
            ELSE Fail
        ELSE Fail

RECURSIVE ScanDigits(_, _)
ScanDigits(s, i) ==
    IF At(s, i) \in Digits THEN ScanDigits(s, i + 1) ELSE i

\* json.scanner NUMBER_RE, integers only; int("-0") is 0.
ScanNumber(s, i) ==
    LET j == IF At(s, i) = "-" THEN i + 1 ELSE i
        k == IF At(s, j) = "0" THEN j + 1 ELSE ScanDigits(s, j)
    IN  IF k = j THEN Fail
        ELSE IF SubSeq(s, j, k - 1) = <<"0">> THEN Ok(JInt(<<"0">>), k)
        ELSE Ok(JInt(SubSeq(s, i, k - 1)), k)

\* dict[key] = value
DictSet(items, key, value) ==
    IF \E n \in 1..Len(items) : items[n].k = key
    THEN LET n == CHOOSE n \in 1..Len(items) : items[n].k = key
         IN  [items EXCEPT ![n] = [k |-> key, v |-> value]]
    ELSE Append(items, [k |-> key, v |-> value])

RECURSIVE ScanValue(_, _)
RECURSIVE ScanElements(_, _, _)
RECURSIVE ScanMembers(_, _, _)

\* json.scanner.py_make_scanner._scan_once
ScanValue(s, i) ==
    LET c == At(s, i) IN
    IF c = "\"" THEN
        LET r == ScanString(s, i + 1, <<>>) IN
        IF r.ok THEN Ok(JStr(r.v), r.i) ELSE Fail
    ELSE IF c = "{" THEN
        LET j == SkipWhitespace(s, i + 1) IN
        IF At(s, j) = "}" THEN Ok(JDict(<<>>), j + 1) ELSE ScanMembers(s, j, <<>>)
    ELSE IF c = "[" THEN
        LET j == SkipWhitespace(s, i + 1) IN
        IF At(s, j) = "]" THEN Ok(JList(<<>>), j + 1) ELSE ScanElements(s, j, <<>>)
    ELSE IF StartsWith(From(s, i - 1), <<"n", "u", "l", "l">>) THEN Ok(JNone, i + 4)
    ELSE IF StartsWith(From(s, i - 1), <<"t", "r", "u", "e">>) THEN Ok(JBool(TRUE), i + 4)
    ELSE IF StartsWith(From(s, i - 1), <<"f", "a", "l", "s", "e">>)
        THEN Ok(JBool(FALSE), i + 5)
    ELSE IF c = "-" \/ c \in Digits THEN ScanNumber(s, i)
    ELSE Fail

\* json.decoder.JSONArray from the first element on
ScanElements(s, i, acc) ==
    LET r == ScanValue(s, i) IN
    IF ~r.ok THEN Fail
    ELSE
        LET j == SkipWhitespace(s, r.i) IN
        IF At(s, j) = "]" THEN Ok(JList(Append(acc, r.v)), j + 1)
        ELSE IF At(s, j) = ","
            THEN ScanElements(s, SkipWhitespace(s, j + 1), Append(acc, r.v))
        ELSE Fail

\* json.decoder.JSONObject from the first key on
ScanMembers(s, i, acc) ==
    IF At(s, i) # "\"" THEN Fail
    ELSE
        LET key == ScanString(s, i + 1, <<>>) IN
        IF ~key.ok THEN Fail
        ELSE
            LET j == SkipWhitespace(s, key.i) IN
            IF At(s, j) # ":" THEN Fail
            ELSE
                LET r == ScanValue(s, SkipWhitespace(s, j + 1)) IN
                IF ~r.ok THEN Fail
                ELSE
                    LET m == SkipWhitespace(s, r.i)
                        items == DictSet(acc, key.v, r.v)
                    IN  IF At(s, m) = "}" THEN Ok(JDict(items), m + 1)
                        ELSE IF At(s, m) = ","
                            THEN ScanMembers(s, SkipWhitespace(s, m + 1), items)
                        ELSE Fail

\* json.loads(s): ok is FALSE where it raises JSONDecodeError.
json_loads(s) ==
    LET r == ScanValue(s, SkipWhitespace(s, 1)) IN
    IF r.ok /\ SkipWhitespace(s, r.i) = Len(s) + 1 THEN r ELSE Fail

\* json.encoder.py_encode_basestring_ascii without the quotes
RECURSIVE EscapeString(_)
EscapeString(s) ==
    IF s = <<>> THEN <<>>
    ELSE
        LET c == Head(s)
            e == CASE c = "\"" -> <<"\\", "\"">>
                   [] c = "\\" -> <<"\\", "\\">>
                   [] c = "\n" -> <<"\\", "n">>
                   [] c = "\r" -> <<"\\", "r">>
                   [] c = "\t" -> <<"\\", "t">>
                   [] c \in NonAscii -> <<"\\", "u">> \o UnicodeEscape(c)
                   [] OTHER -> <<c>>
        IN  e \o EscapeString(Tail(s))

Quoted(s) == <<"\"">> \o EscapeString(s) \o <<"\"">>

RECURSIVE json_dumps(_, _, _)
RECURSIVE DumpElements(_, _, _)
RECURSIVE DumpMembers(_, _, _)

\* json.dumps(v, separators=(item_separator, key_separator))
json_dumps(v, item_separator, key_separator) ==
    CASE v.t = "None" -> <<"n", "u", "l", "l">>
      [] v.t = "bool" -> IF v.b THEN <<"t", "r", "u", "e">>
                         ELSE <<"f", "a", "l", "s", "e">>
      [] v.t = "int" -> v.s
      [] v.t = "str" -> Quoted(v.s)
      [] v.t = "list" ->
            <<"[">> \o DumpElements(v.items, item_separator, key_separator) \o <<"]">>
      [] v.t = "dict" ->
            <<"{">> \o DumpMembers(v.items, item_separator, key_separator) \o <<"}">>

DumpElements(items, item_separator, key_separator) ==
    IF items = <<>> THEN <<>>
    ELSE json_dumps(Head(items), item_separator, key_separator)
         \o (IF Len(items) > 1 THEN item_separator ELSE <<>>)
         \o DumpElements(Tail(items), item_separator, key_separator)

DumpMembers(items, item_separator, key_separator) ==
    IF items = <<>> THEN <<>>
    ELSE Quoted(Head(items).k) \o key_separator
         \o json_dumps(Head(items).v, item_separator, key_separator)
         \o (IF Len(items) > 1 THEN item_separator ELSE <<>>)
         \o DumpMembers(Tail(items), item_separator, key_separator)

---------------------------------------------------------------------------
(* fix_sse_line.  An outcome is the bytes returned, or the exception that  *)
(* leaves the function.                                                    *)

Return(b) == [exc |-> "", out |-> b]
Raise(e) == [exc |-> e, out |-> <<>>]

DATA == <<"d", "a", "t", "a", ":">>
DATA_SP == <<"d", "a", "t", "a", ":", " ">>
DATA_SP_BRACE == <<"d", "a", "t", "a", ":", " ", "{">>
CHOICES == <<"c", "h", "o", "i", "c", "e", "s">>
DELTA == <<"d", "e", "l", "t", "a">>
TOOL_CALLS == <<"t", "o", "o", "l", "_", "c", "a", "l", "l", "s">>
INDEX == <<"i", "n", "d", "e", "x">>
MODEL == <<"m", "o", "d", "e", "l">>
GPT_4O_MINI == <<"g", "p", "t", "-", "4", "o", "-", "m", "i", "n", "i">>

\* key in d
DictHas(d, key) == \E n \in 1..Len(d.items) : d.items[n].k = key

\* d.get(key, default)
DictGet(d, key, default) ==
    IF DictHas(d, key)
    THEN d.items[CHOOSE n \in 1..Len(d.items) : d.items[n].k = key].v
    ELSE default

\* The values a for loop over v yields: the elements of a list, the keys of a
\* dict, the characters of a str.  Anything else is not iterable.
Iterable(v) == v.t \in {"list", "dict", "str"}
Iter(v) ==
    CASE v.t = "list" -> v.items
      [] v.t = "dict" -> [n \in 1..Len(v.items) |-> JStr(v.items[n].k)]
      [] v.t = "str" -> [n \in 1..Len(v.s) |-> JStr(<<v.s[n]>>)]

\* sub in s, for two texts
IsSubstring(sub, s) ==
    \E i \in 0..(Len(s) - Len(sub)) : SubSeq(s, i + 1, i + Len(sub)) = sub

Unchanged(v) == [exc |-> "", v |-> v, changed |-> FALSE]
Changed(v) == [exc |-> "", v |-> v, changed |-> TRUE]
Raised(e) == [exc |-> e, v |-> JNone, changed |-> FALSE]

\* Lines 51-53 with line 53 moved out of the if: changed is set for every
\* tool call that is a dict.
FixToolCall_AlwaysChanged(tc) ==
    CASE tc.t = "dict" ->
            Changed(IF DictHas(tc, INDEX) THEN tc
                    ELSE JDict(DictSet(tc.items, INDEX, JInt(<<"0">>))))
      [] tc.t = "list" ->
            IF \E n \in 1..Len(tc.items) :
                   tc.items[n].t = "str" /\ tc.items[n].s = INDEX
            THEN Unchanged(tc) ELSE Raised("TypeError")
      [] tc.t = "str" ->
            IF IsSubstring(INDEX, tc.s) THEN Unchanged(tc) ELSE Raised("TypeError")
      [] OTHER -> Raised("TypeError")

\* lines 51-53:  if "index" not in tc: tc["index"] = 0
FixToolCall(tc) ==
    CASE tc.t = "dict" ->
            IF DictHas(tc, INDEX) THEN Unchanged(tc)
            ELSE Changed(JDict(DictSet(tc.items, INDEX, JInt(<<"0">>))))
      [] tc.t = "list" ->
            IF \E n \in 1..Len(tc.items) :
                   tc.items[n].t = "str" /\ tc.items[n].s = INDEX
            THEN Unchanged(tc) ELSE Raised("TypeError")
      [] tc.t = "str" ->
            IF IsSubstring(INDEX, tc.s) THEN Unchanged(tc) ELSE Raised("TypeError")
      [] OTHER -> Raised("TypeError")

\* lines 50-53: the loop over the tool calls tcs, through the first exception.
RECURSIVE FixToolCalls(_, _)
FixToolCalls(tcs, acc) ==
    IF tcs = <<>> \/ acc.exc # "" THEN acc
    ELSE
        LET r == FixToolCall(Head(tcs)) IN
        FixToolCalls(Tail(tcs),
            [exc |-> r.exc, v |-> Append(acc.v, r.v),
             changed |-> acc.changed \/ r.changed])

\* lines 49-53: one choice
FixChoice(choice) ==
    IF choice.t # "dict" THEN Raised("AttributeError")
    ELSE
        LET delta == DictGet(choice, DELTA, JDict(<<>>)) IN
        IF delta.t # "dict" THEN Raised("AttributeError")
        ELSE
            LET tool_calls == DictGet(delta, TOOL_CALLS, JList(<<>>)) IN
            IF ~Iterable(tool_calls) THEN Raised("TypeError")
            ELSE
                LET r == FixToolCalls(Iter(tool_calls), Unchanged(<<>>)) IN
                IF r.exc # "" THEN Raised(r.exc)
                ELSE IF ~r.changed THEN Unchanged(choice)
                ELSE Changed(JDict(DictSet(choice.items, DELTA,
                         JDict(DictSet(delta.items, TOOL_CALLS, JList(r.v))))))

\* lines 48-53: the loop over the choices, through the first exception.
RECURSIVE FixChoices(_, _)
FixChoices(choices, acc) ==
    IF choices = <<>> \/ acc.exc # "" THEN acc
    ELSE
        LET r == FixChoice(Head(choices)) IN
        FixChoices(Tail(choices),
            [exc |-> r.exc, v |-> Append(acc.v, r.v),
             changed |-> acc.changed \/ r.changed])

\* Fix 2, lines 48-53: add the missing "index" to the tool_calls deltas.
FixIndex(payload) ==
    LET choices == DictGet(payload, CHOICES, JList(<<>>)) IN
    IF ~Iterable(choices) THEN Raised("TypeError")
    ELSE
        LET r == FixChoices(Iter(choices), Unchanged(<<>>)) IN
        IF r.exc # "" THEN Raised(r.exc)
        ELSE IF ~r.changed THEN Unchanged(payload)
        ELSE Changed(JDict(DictSet(payload.items, CHOICES, JList(r.v))))

\* Line 56 with the prefix cut short: gpt-4o.
RewritesModel_ShortPrefix(model) ==
    MODEL_NAME # <<>> /\ StartsWith(model, <<"g", "p", "t", "-", "4", "o">>)

\* The condition of Fix 3, line 56, for a model that is a str.
RewritesModel(model) == MODEL_NAME # <<>> /\ StartsWith(model, GPT_4O_MINI)

\* Fix 3, lines 56-58: rewrite gpt-4o-mini to the configured model.
FixModel(payload) ==
    IF MODEL_NAME = <<>> THEN Unchanged(payload)
    ELSE
        LET model == DictGet(payload, MODEL, JStr(<<>>)) IN
        IF model.t # "str" THEN Raised("AttributeError")
        ELSE IF RewritesModel(model.s)
            THEN Changed(JDict(DictSet(payload.items, MODEL, JStr(MODEL_NAME))))
        ELSE Unchanged(payload)

\* Line 33 without its second test: the space is added to every data line.
MissingSpace_Always(line) == StartsWith(line, DATA)

\* Line 33 testing for the word data, without the colon.
MissingSpace_Word(line) ==
    StartsWith(line, <<"d", "a", "t", "a">>) /\ ~StartsWith(line, DATA_SP)

\* The condition of Fix 1, line 33.
MissingSpace(line) == StartsWith(line, DATA) /\ ~StartsWith(line, DATA_SP)

\* Lines 47-62: the two fixes on the parsed payload, and what is returned.
\* fix2 is payload and changed after Fix 2, fix3 after Fix 3.
FixPayload(line, payload) ==
    Only({IF fix2.exc # "" THEN Raise(fix2.exc)
          ELSE Only({IF fix3.exc # "" THEN Raise(fix3.exc)
                     ELSE IF fix2.changed \/ fix3.changed
                         THEN Return(encode(DATA_SP
                                  \o json_dumps(fix3.v, <<",">>, <<":">>)))
                     ELSE Return(encode(line)) :
                     fix3 \in {FixModel(fix2.v)}}) :
          fix2 \in {FixIndex(payload)}})

\* Lines 36-62: line is the decoded line after Fix 1.
FixLine(line) ==
    IF ~StartsWith(line, DATA_SP_BRACE) THEN Return(encode(line))
    ELSE Only({IF ~loaded.ok THEN Return(encode(line))
               ELSE FixPayload(line, loaded.v) :
               loaded \in {json_loads(From(line, 6))}})

\* Lines 28-62.
fix_sse_line(line_bytes) ==
    Only({FixLine(line) :
          line \in {IF MissingSpace(decoded) THEN DATA_SP \o From(decoded, 5)
                    ELSE decoded :
                    decoded \in {decode(line_bytes)}}})

---------------------------------------------------------------------------
(* The configurations and the lines the model runs on.                     *)

CUSTOM_MODEL == <<"c", "u", "s", "t", "o", "m", "-", "m", "o", "d", "e", "l">>
MINI_X == <<"g", "p", "t", "-", "4", "o", "-", "m", "i", "n", "i", "-", "x">>

\* sys.argv[3]: absent, an arbitrary name, a name that itself starts with
\* gpt-4o-mini.
ModelNames == {<<>>, CUSTOM_MODEL, MINI_X}

\* {"choices":[{"delta":{"tool_calls":[{"type":"function"}]}}]}
Payload_function ==
    <<"{","\"","c","h","o","i","c","e","s","\"",":","[","{","\"","d","e",
      "l","t","a","\"",":","{","\"","t","o","o","l","_","c","a","l","l","s",
      "\"",":","[","{","\"","t","y","p","e","\"",":","\"","f","u","n","c",
      "t","i","o","n","\"","}","]","}","}","]","}">>
\* {"choices":[{"delta":{"tool_calls":[{},{"index":5}]}}]}
Payload_two_calls ==
    <<"{","\"","c","h","o","i","c","e","s","\"",":","[","{","\"","d","e",
      "l","t","a","\"",":","{","\"","t","o","o","l","_","c","a","l","l","s",
      "\"",":","[","{","}",",","{","\"","i","n","d","e","x","\"",":","5",
      "}","]","}","}","]","}">>
\* {"choices": [{"delta": {"tool_calls": [{"index": 5}]}}]}
Payload_indexed ==
    <<"{","\"","c","h","o","i","c","e","s","\"",":"," ","[","{","\"","d",
      "e","l","t","a","\"",":"," ","{","\"","t","o","o","l","_","c","a","l",
      "l","s","\"",":"," ","[","{","\"","i","n","d","e","x","\"",":"," ",
      "5","}","]","}","}","]","}">>
\* {"model":"gpt-4o-mini-2024","choices":[]}
Payload_mini ==
    <<"{","\"","m","o","d","e","l","\"",":","\"","g","p","t","-","4","o",
      "-","m","i","n","i","-","2","0","2","4","\"",",","\"","c","h","o","i",
      "c","e","s","\"",":","[","]","}">>
\* {"model": "gpt-4o-mini-x"}
Payload_mini_x ==
    <<"{","\"","m","o","d","e","l","\"",":"," ","\"","g","p","t","-","4",
      "o","-","m","i","n","i","-","x","\"","}">>
\* {"model":"other-model"}
Payload_other ==
    <<"{","\"","m","o","d","e","l","\"",":","\"","o","t","h","e","r","-",
      "m","o","d","e","l","\"","}">>
\* {"model":"gpt-4o"}
Payload_4o ==
    <<"{","\"","m","o","d","e","l","\"",":","\"","g","p","t","-","4","o",
      "\"","}">>
\* {"model":"gpt-4o-mini","choices":[{"delta":{"tool_calls":[{}]}}]}
Payload_both ==
    <<"{","\"","m","o","d","e","l","\"",":","\"","g","p","t","-","4","o",
      "-","m","i","n","i","\"",",","\"","c","h","o","i","c","e","s","\"",
      ":","[","{","\"","d","e","l","t","a","\"",":","{","\"","t","o","o",
      "l","_","c","a","l","l","s","\"",":","[","{","}","]","}","}","]","}">>
\* {"a" : 1, "a":-0}
Payload_twice ==
    <<"{","\"","a","\""," ",":"," ","1",","," ","\"","a","\"",":","-","0",
      "}">>
\* {"a":"<C3 BF>","choices":[{"delta":{"tool_calls":[{}]}}]}
Payload_latin ==
    <<"{","\"","a","\"",":","\"","xC3","xBF","\"",",","\"","c","h","o","i",
      "c","e","s","\"",":","[","{","\"","d","e","l","t","a","\"",":","{",
      "\"","t","o","o","l","_","c","a","l","l","s","\"",":","[","{","}","]",
      "}","}","]","}">>
\* {"a":"<FF>"}
Payload_bad_byte ==
    <<"{","\"","a","\"",":","\"","xFF","\"","}">>
\* {"choices":null}
Payload_null_choices ==
    <<"{","\"","c","h","o","i","c","e","s","\"",":","n","u","l","l","}">>
\* {"choices":[1]}
Payload_int_choice ==
    <<"{","\"","c","h","o","i","c","e","s","\"",":","[","1","]","}">>
\* {"choices":[{"delta":null}]}
Payload_null_delta ==
    <<"{","\"","c","h","o","i","c","e","s","\"",":","[","{","\"","d","e",
      "l","t","a","\"",":","n","u","l","l","}","]","}">>
\* {"choices":[{"delta":{"tool_calls":null}}]}
Payload_null_calls ==
    <<"{","\"","c","h","o","i","c","e","s","\"",":","[","{","\"","d","e",
      "l","t","a","\"",":","{","\"","t","o","o","l","_","c","a","l","l","s",
      "\"",":","n","u","l","l","}","}","]","}">>
\* {"choices":[{"delta":{"tool_calls":[1]}}]}
Payload_int_call ==
    <<"{","\"","c","h","o","i","c","e","s","\"",":","[","{","\"","d","e",
      "l","t","a","\"",":","{","\"","t","o","o","l","_","c","a","l","l","s",
      "\"",":","[","1","]","}","}","]","}">>
\* {"model":null}
Payload_null_model ==
    <<"{","\"","m","o","d","e","l","\"",":","n","u","l","l","}">>
\* {"model":"gpt-4o-mini"
Payload_open ==
    <<"{","\"","m","o","d","e","l","\"",":","\"","g","p","t","-","4","o",
      "-","m","i","n","i","\"">>
\* {}x
Payload_extra ==
    <<"{","}","x">>
\* [DONE]
Payload_done ==
    <<"[","D","O","N","E","]">>
\* hello
Payload_text ==
    <<"h","e","l","l","o">>
\* 
Payload_none ==
    <<>>

Payloads ==
    {Payload_function, Payload_two_calls, Payload_indexed,
     Payload_mini, Payload_mini_x, Payload_other,
     Payload_both, Payload_twice, Payload_latin,
     Payload_bad_byte, Payload_null_choices, Payload_int_choice,
     Payload_null_delta, Payload_null_calls, Payload_int_call,
     Payload_null_model, Payload_open, Payload_extra,
     Payload_done, Payload_text, Payload_none, Payload_4o}
\* : ping
Line_comment ==
    <<":"," ","p","i","n","g">>
\* event: message
Line_event ==
    <<"e","v","e","n","t",":"," ","m","e","s","s","a","g","e">>
\* data
Line_data_word ==
    <<"d","a","t","a">>
\* Data: {"model":"gpt-4o-mini"}
Line_upper ==
    <<"D","a","t","a",":"," ","{","\"","m","o","d","e","l","\"",":","\"",
      "g","p","t","-","4","o","-","m","i","n","i","\"","}">>
\* id: \xff
Line_bad_byte ==
    <<"i","d",":"," ","xFF">>
\* id: \xc3\xbf
Line_latin ==
    <<"i","d",":"," ","xC3","xBF">>
\* id: \xef\xbf
Line_cut ==
    <<"i","d",":"," ","xEF","xBF">>
\* id: \xef\xbf\xbd
Line_replacement ==
    <<"i","d",":"," ","xEF","xBF","xBD">>
\* \xbd\xc3\xefx
Line_stray ==
    <<"xBD","xC3","xEF","x">>
NonDataLines ==
    {<<>>, Line_comment, Line_event, Line_data_word, Line_upper,
     Line_bad_byte, Line_latin, Line_cut, Line_replacement, Line_stray}

\* What stands before the payload of a data line.
Prefixes ==
    {DATA, DATA_SP, <<"d", "a", "t", "a", ":", " ", " ">>,
     <<"d", "a", "t", "a", ":", "\t">>}

FixLines == NonDataLines \cup {prefix \o payload : prefix \in Prefixes, payload \in Payloads}

---------------------------------------------------------------------------
(* SpecFix: fix_sse_line called on a line, and again on what it returned.  *)

NoOutcome == [exc |-> "none", out |-> <<>>]

\* No stream is being forwarded.
StreamIdle ==
    /\ upstream = <<>>
    /\ resp_closed = FALSE
    /\ saw_done = FALSE
    /\ wfile = <<>>
    /\ client_open = FALSE
    /\ pc = "idle"

\* No request is being handled by _proxy, and no thread is running.
NoRequest == [command |-> "", body |-> <<>>]
NoResponse == [kind |-> "none"]
ProxyIdle ==
    /\ request = NoRequest
    /\ body = <<>>
    /\ opened = <<>>
    /\ resp = NoResponse
    /\ heads = <<>>
    /\ workers = <<>>

FixInit ==
    /\ MODEL_NAME \in ModelNames
    /\ arg \in FixLines
    /\ once = NoOutcome
    /\ twice = NoOutcome
    /\ fpc = "call"
    /\ StreamIdle
    /\ ProxyIdle

Call ==
    /\ fpc = "call"
    /\ once' = fix_sse_line(arg)
    /\ fpc' = IF once'.exc = "" THEN "returned" ELSE "raised"
    /\ UNCHANGED <<MODEL_NAME, arg, twice, streamvars, proxyvars, workers>>

CallAgain ==
    /\ fpc = "returned"
    /\ twice' = fix_sse_line(once.out)
    /\ fpc' = "again"
    /\ UNCHANGED <<MODEL_NAME, arg, once, streamvars, proxyvars, workers>>

FixNext == Call \/ CallAgain

SpecFix == FixInit /\ [][FixNext]_vars

---------------------------------------------------------------------------
(* Spec: _stream_sse forwarding one upstream response to one client.  The  *)
(* loop takes the lines as the upstream sends them; a write to the client  *)
(* raises BrokenPipeError or ConnectionResetError once the client is gone. *)

MaxLines == 4

LF == <<"\n">>
DONE_EVENT ==
    <<"d", "a", "t", "a", ":", " ", "[", "D", "O", "N", "E", "]", "\n", "\n">>
Sentinels ==
    {<<"d", "a", "t", "a", ":", " ", "[", "D", "O", "N", "E", "]">>,
     <<"d", "a", "t", "a", ":", "[", "D", "O", "N", "E", "]">>}

\* bytes.rstrip(chars)
RECURSIVE rstrip(_, _)
rstrip(b, chars) ==
    IF b # <<>> /\ b[Len(b)] \in chars THEN rstrip(SubSeq(b, 1, Len(b) - 1), chars)
    ELSE b

\* The lines an upstream sends, each without the "\n" that ends it.
StreamLines ==
    {DATA \o Payload_function,
     <<>>,
     DATA_SP \o Payload_done,
     DATA \o Payload_done \o <<"\r">>,
     Line_comment,
     DATA_SP \o Payload_null_choices,
     <<"d", "a", "t", "a", ":", " ", " ">> \o Payload_two_calls}

\* The lines read from the upstream so far.
LinesRead == Len(SelectSeq(upstream, LAMBDA c : c = "\n"))

\* wfile after the first n of the writes have gone through.
RECURSIVE Written(_, _, _)
Written(w, writes, n) ==
    IF n = 0 THEN w ELSE Written(w \o Head(writes), Tail(writes), n - 1)

\* Line 129: _stream_sse is entered, the response headers sent.
Init ==
    /\ MODEL_NAME \in ModelNames
    /\ upstream = <<>>
    /\ resp_closed = FALSE
    /\ saw_done = FALSE
    /\ wfile = <<>>
    /\ client_open = TRUE
    /\ pc = "stream"
    /\ arg = <<>>
    /\ once = NoOutcome
    /\ twice = NoOutcome
    /\ fpc = "idle"
    /\ ProxyIdle

\* Lines 146-147 with pass for return: a write that raised is passed over
\* and the loop goes on.
AfterWrites_Swallowed(every) == "stream"

\* Lines 133, 146-147: where _stream_sse is after the writes for a line: in
\* its loop when every one went through, returned by the except clause when
\* one raised BrokenPipeError or ConnectionResetError.
AfterWrites(every) == IF every THEN "stream" ELSE "aborted"

\* Lines 148-149 without the finally: resp is closed on normal exhaustion
\* only.
Closes_OnEndOnly(next_pc) == next_pc = "done"

\* Lines 132, 148-149: resp.close() has run once the try statement is left,
\* by a return, by an exception or at the end of the loop.
Closes(next_pc) == next_pc # "stream"

\* Lines 133-139 and 146-149: the upstream sends a sentinel line.  The write
\* goes through, or the client is gone and _stream_sse returns.
ForwardSentinel(sent) ==
    /\ pc = "stream"
    /\ LinesRead < MaxLines
    /\ rstrip(sent \o LF, {"\r", "\n"}) \in Sentinels
    /\ upstream' = upstream \o sent \o LF
    /\ saw_done' = TRUE
    /\ \E n \in 0..1 :
        /\ wfile' = Written(wfile, <<DONE_EVENT>>, n)
        /\ client_open' = (n = 1)
        /\ pc' = AfterWrites(n = 1)
        /\ resp_closed' = Closes(pc')
    /\ UNCHANGED <<MODEL_NAME, fixvars, proxyvars, workers>>

\* Lines 141-145: what is written for the bytes fix_sse_line returned.
Writes(fixed_line) ==
    IF StartsWith(fixed_line, DATA_SP) THEN <<fixed_line \o LF, LF>>
    ELSE <<fixed_line \o LF>>

\* Lines 133-135, 140-149: the upstream sends any other line.  When
\* fix_sse_line returns, every write goes through, or the client is gone at
\* one of them and _stream_sse returns.  When fix_sse_line raises, no except
\* clause takes the TypeError or AttributeError: resp is closed and the
\* exception leaves _stream_sse.
ForwardLine(sent) ==
    /\ pc = "stream"
    /\ LinesRead < MaxLines
    /\ \E raw_line \in {rstrip(sent \o LF, {"\r", "\n"})} :
        /\ raw_line \notin Sentinels
        /\ \E outcome \in {fix_sse_line(raw_line)} :
            \/ /\ outcome.exc = ""
               /\ \E n \in 0..Len(Writes(outcome.out)) :
                    /\ wfile' = Written(wfile, Writes(outcome.out), n)
                    /\ client_open' = (n = Len(Writes(outcome.out)))
                    /\ pc' = AfterWrites(client_open')
                    /\ resp_closed' = Closes(pc')
            \/ /\ outcome.exc # ""
               /\ pc' = "raised"
               /\ resp_closed' = Closes(pc')
               /\ UNCHANGED <<wfile, client_open>>
    /\ upstream' = upstream \o sent \o LF
    /\ UNCHANGED <<MODEL_NAME, saw_done, fixvars, proxyvars, workers>>

\* Lines 133, 146-149: reading the next line raises.  A ConnectionResetError
\* is taken by the except clause and _stream_sse returns; any other error
\* (a timeout, an incomplete read) leaves _stream_sse.  resp is closed.
ReadFails ==
    /\ pc = "stream"
    /\ \E error \in {"ConnectionResetError", "TimeoutError"} :
        pc' = IF error = "ConnectionResetError" THEN "aborted" ELSE "raised"
    /\ resp_closed' = Closes(pc')
    /\ UNCHANGED <<MODEL_NAME, upstream, saw_done, wfile, client_open, fixvars,
                 proxyvars, workers>>

\* Lines 133, 148-156: the upstream body is exhausted.  resp is closed and,
\* when no sentinel was seen, one is written; a client that is gone is passed
\* over.
EndOfStream ==
    /\ pc = "stream"
    /\ pc' = "done"
    /\ resp_closed' = Closes(pc')
    /\ IF saw_done THEN UNCHANGED <<wfile, client_open>>
       ELSE \E n \in 0..1 :
                /\ wfile' = Written(wfile, <<DONE_EVENT>>, n)
                /\ client_open' = (n = 1)
    /\ UNCHANGED <<MODEL_NAME, upstream, saw_done, fixvars, proxyvars, workers>>

Next ==
    \/ \E sent \in StreamLines : ForwardSentinel(sent)
    \/ \E sent \in StreamLines : ForwardLine(sent)
    \/ ReadFails
    \/ EndOfStream

Spec == Init /\ [][Next]_vars

---------------------------------------------------------------------------
(* What the properties of fix_sse_line are stated with.                    *)

\* b is well-formed UTF-8: every byte above 0x7F stands in a complete sequence.
WellFormedUtf8(b) ==
    \A i \in 1..Len(b) :
        CASE b[i] = "xC3" -> At(b, i + 1) \in Continuation
          [] b[i] = "xEF" ->
                At(b, i + 1) \in Continuation /\ At(b, i + 2) \in Continuation
          [] b[i] \in Continuation ->
                \/ At(b, i - 1) = "xC3"
                \/ At(b, i - 1) = "xEF" /\ At(b, i + 1) \in Continuation
                \/ At(b, i - 2) = "xEF" /\ At(b, i - 1) \in Continuation
          [] b[i] = "xFF" -> FALSE
          [] OTHER -> TRUE

\* The bytes below 0x80 of b, in order.
AsciiOf(b) == SelectSeq(b, LAMBDA c : c \notin HighBytes)

\* b with one space put after a data: prefix that has none.
WithSpace(b) ==
    IF StartsWith(b, DATA) /\ ~StartsWith(b, DATA_SP) THEN DATA_SP \o From(b, 5)
    ELSE b

\* b is a data line whose payload is a JSON object, and that object.
HasPayload(b) ==
    /\ StartsWith(WithSpace(b), DATA_SP_BRACE)
    /\ json_loads(From(decode(WithSpace(b)), 6)).ok
PayloadOf(b) == json_loads(From(decode(WithSpace(b)), 6)).v

\* The tool calls of a payload: the elements of choices[*].delta.tool_calls.
ToolCallsOf(payload) ==
    LET choices == DictGet(payload, CHOICES, JList(<<>>))
        CallsOf(choice) ==
            IF choice.t # "dict" THEN {}
            ELSE LET delta == DictGet(choice, DELTA, JDict(<<>>)) IN
                 IF delta.t # "dict" THEN {}
                 ELSE LET tool_calls == DictGet(delta, TOOL_CALLS, JList(<<>>)) IN
                      IF tool_calls.t # "list" THEN {}
                      ELSE {<<n, tool_calls.items[n]>> : n \in 1..Len(tool_calls.items)}
    IN  IF choices.t # "list" THEN {}
        ELSE UNION {{<<m>> \o c : c \in CallsOf(choices.items[m])} :
                       m \in 1..Len(choices.items)}

\* Position <<choice, call>> and tool call of every tool call without an index.
Unindexed(payload) ==
    {c \in ToolCallsOf(payload) : c[3].t = "dict" /\ ~DictHas(c[3], INDEX)}

\* The model of a payload as JSON text, "absent" when it has none.
ModelText(payload) ==
    IF DictHas(payload, MODEL)
    THEN json_dumps(DictGet(payload, MODEL, JNone), <<",">>, <<":">>)
    ELSE <<"absent">>

\* A replacement is configured and the payload's model starts with gpt-4o-mini.
ModelFires(payload) ==
    LET model == DictGet(payload, MODEL, JStr(<<>>)) IN
    MODEL_NAME # <<>> /\ model.t = "str" /\ StartsWith(model.s, GPT_4O_MINI)

\* Neither JSON fix applies to the line b.
NoFixApplies(b) ==
    HasPayload(b) => (Unindexed(PayloadOf(b)) = {} /\ ~ModelFires(PayloadOf(b)))

---------------------------------------------------------------------------
(* The properties of fix_sse_line, checked under SpecFix.                  *)

\* C3: fix_sse_line is total: it returns bytes on every line and never raises.
C3_Total == fpc # "raised"

\* C4: fix_sse_line is idempotent: applied to what it returned, for every
\* replacement model name, it returns the same bytes again.
C4_Idempotent == fpc = "again" => twice = once

\* C4, witness: with a replacement name that starts with gpt-4o-mini, a line whose
\* model was rewritten has gone through fix_sse_line a second time.
C4_Witness ==
    /\ fpc = "again"
    /\ MODEL_NAME = MINI_X
    /\ arg = DATA \o Payload_mini
    /\ once.out # arg
    /\ ModelFires(PayloadOf(once.out))

\* C5 as stated: a line that does not start with data: is returned as the very
\* bytes it came in, also when some of its bytes are not valid UTF-8.
C5_IdentityOnNonData ==
    (fpc # "call" /\ ~StartsWith(arg, DATA)) => once = Return(arg)

\* C5, amended: a line that does not start with data: is returned as the very
\* bytes it came in when it is well-formed UTF-8; when it is not, what is
\* returned is well-formed UTF-8 with the same ASCII bytes, and differs.
C5_IdentityOnWellFormedNonData ==
    (fpc # "call" /\ ~StartsWith(arg, DATA)) =>
        /\ once.exc = ""
        /\ IF WellFormedUtf8(arg) THEN once.out = arg
           ELSE /\ once.out # arg
                /\ WellFormedUtf8(once.out)
                /\ AsciiOf(once.out) = AsciiOf(arg)

\* C5, witness: a line with a two-byte character and no data: prefix has come
\* back unchanged.
C5_Witness == fpc = "returned" /\ arg = Line_latin /\ once.out = Line_latin

\* C6 as stated: when neither JSON fix applies, what is returned is the line
\* verbatim but for the one space after data:.
C6_Verbatim ==
    (fpc = "returned" /\ NoFixApplies(arg)) => once.out = WithSpace(arg)

\* C6, amended: when neither JSON fix applies, what is returned is the line but
\* for the one space after data: when the line is well-formed UTF-8; when it
\* is not, what is returned is well-formed UTF-8 with the same ASCII bytes.
C6_VerbatimWhenWellFormed ==
    (fpc = "returned" /\ NoFixApplies(arg)) =>
        IF WellFormedUtf8(arg) THEN once.out = WithSpace(arg)
        ELSE /\ once.out # WithSpace(arg)
             /\ WellFormedUtf8(once.out)
             /\ AsciiOf(once.out) = AsciiOf(WithSpace(arg))

\* C6, witness: a payload written with spaces, every tool call indexed, after
\* data: without a space, has come back with that space and its own spaces.
C6_Witness ==
    /\ fpc = "returned"
    /\ arg = DATA \o Payload_indexed
    /\ NoFixApplies(arg)
    /\ once.out = DATA_SP \o Payload_indexed

\* C8: the model of the payload is overwritten with the replacement name when
\* a replacement is configured and the model starts with gpt-4o-mini, and is
\* what it was in every other case.
C8_ModelRewrite ==
    (fpc = "returned" /\ HasPayload(arg)) =>
        /\ HasPayload(once.out)
        /\ ModelText(PayloadOf(once.out)) =
               IF ModelFires(PayloadOf(arg)) THEN Quoted(MODEL_NAME)
               ELSE ModelText(PayloadOf(arg))

\* C8, witness: gpt-4o-mini-2024 has been overwritten with custom-model.
C8_Witness ==
    /\ fpc = "returned"
    /\ MODEL_NAME = CUSTOM_MODEL
    /\ arg = DATA_SP \o Payload_mini
    /\ ModelText(PayloadOf(once.out)) = Quoted(CUSTOM_MODEL)

---------------------------------------------------------------------------
(* What the properties of _stream_sse are stated with: the bytes written   *)
(* to the client, read as the client reads them.                           *)

\* The lines of w from byte i on, each without the "\n" that ends it.
RECURSIVE LinesFrom(_, _)
LinesFrom(w, i) ==
    IF i > Len(w) THEN <<>>
    ELSE <<SubSeq(w, i, Find(w, i, {"\n"}) - 1)>>
             \o LinesFrom(w, Find(w, i, {"\n"}) + 1)
LinesOf(w) == LinesFrom(w, 1)

DONE_LINE == DATA_SP \o Payload_done

\* The positions in the lines of w of a data: [DONE] line with a blank line
\* after it.
DoneEvents(w) ==
    {i \in 1..(Len(LinesOf(w)) - 1) :
        LinesOf(w)[i] = DONE_LINE /\ LinesOf(w)[i + 1] = <<>>}

\* The value of the data field of a line that starts with data: as an event
\* stream parser takes it: what follows the colon, less one leading space.
DataOf(l) == IF StartsWith(l, DATA_SP) THEN From(l, 6) ELSE From(l, 5)

\* The payloads of the data events in w that are JSON objects.
EventPayloads(w) ==
    {json_loads(decode(DataOf(LinesOf(w)[i]))).v :
        i \in {k \in 1..Len(LinesOf(w)) :
                /\ StartsWith(LinesOf(w)[k], DATA)
                /\ json_loads(decode(DataOf(LinesOf(w)[k]))).ok
                /\ json_loads(decode(DataOf(LinesOf(w)[k]))).v.t = "dict"}}

\* l is data: [DONE], or data: and one space and JSON text.
EventLine(l) ==
    \/ l = DONE_LINE
    \/ StartsWith(l, DATA_SP) /\ json_loads(decode(From(l, 6))).ok

\* w is a concatenation of events, each an event line and one blank line.
Framed(w) ==
    /\ Len(LinesOf(w)) % 2 = 0
    /\ \A i \in 1..Len(LinesOf(w)) :
        IF i % 2 = 1 THEN EventLine(LinesOf(w)[i]) ELSE LinesOf(w)[i] = <<>>

\* The upstream body and the client-visible stream of the end-to-end scenario.
Scenario_payload_out ==
    <<"{","\"","c","h","o","i","c","e","s","\"",":","[","{","\"","d","e",
      "l","t","a","\"",":","{","\"","t","o","o","l","_","c","a","l","l","s",
      "\"",":","[","{","\"","t","y","p","e","\"",":","\"","f","u","n","c",
      "t","i","o","n","\"",",","\"","i","n","d","e","x","\"",":","0","}",
      "]","}","}","]","}">>
ScenarioBody ==
    DATA \o Payload_function \o LF \o LF \o DONE_LINE \o LF \o LF
ScenarioOut ==
    DATA_SP \o Scenario_payload_out \o LF \o LF \o DONE_EVENT

---------------------------------------------------------------------------
(* The properties of _stream_sse, checked under Spec.                      *)

\* C1: a stream forwarded to completion with the client connected has data:
\* [DONE] and a blank line written exactly once, whatever sentinels the
\* upstream sent.
C1_ExactlyOnce ==
    (pc = "done" /\ client_open) => Cardinality(DoneEvents(wfile)) = 1

\* C2: however the stream ends, a client that stayed connected has received a
\* data: [DONE] event once _stream_sse is over.
C2_ReceivesDone ==
    (pc \in {"done", "raised", "aborted"} /\ client_open) =>
        DoneEvents(wfile) # {}

\* C7: every tool call in choices[*].delta.tool_calls of every data event
\* written to the client has an index.
C7_EveryToolCallIndexed ==
    \A payload \in EventPayloads(wfile) : Unindexed(payload) = {}

\* C9: what a connected client has been sent is a concatenation of events,
\* each data: <json> or data: [DONE] followed by one blank line, and no other
\* line.
C9_OnlyDataEvents == client_open => Framed(wfile)

\* C10: with no replacement model, the upstream body of the scenario, one
\* data event and one sentinel event each ended by a blank line, reaches the
\* client as exactly the two events of the scenario.
C10_Scenario ==
    (pc = "done" /\ client_open /\ MODEL_NAME = <<>> /\ upstream = ScenarioBody)
        => wfile = ScenarioOut

\* C18: resp is closed on every path out of the loop of _stream_sse: at the
\* end of the upstream body, with or without a sentinel seen, when the client
\* is gone, and when any other exception leaves the loop.
C18_RespClosed == pc \in {"done", "aborted", "raised"} => resp_closed

\* C18, witness: an exception of fix_sse_line has left _stream_sse after a
\* sentinel was seen, and resp is closed.
C18_Witness ==
    /\ pc = "raised"
    /\ saw_done
    /\ client_open
    /\ resp_closed
    /\ upstream # <<>>

\* C19: once a write to the client has failed, _stream_sse reads no further
\* upstream line and writes nothing more, the synthesized data: [DONE]
\* included, and it has returned without an exception.
C19_SilentAbort ==
    [][~client_open =>
          /\ pc \in {"aborted", "done"}
          /\ UNCHANGED <<upstream, wfile, saw_done, pc>>]_vars

\* C19, witness: the client went away at the second write for a data line;
\* _stream_sse has returned with no sentinel seen and none written.
C19_Witness ==
    /\ ~client_open
    /\ pc = "aborted"
    /\ ~saw_done
    /\ wfile # <<>>
    /\ DoneEvents(wfile) = {}
    /\ resp_closed

---------------------------------------------------------------------------
(* _proxy, lines 72-127: one inbound request, the request sent upstream    *)
(* with urlopen, and the response relayed to the client.  A header block   *)
(* is a sequence of headers [k |-> name, v |-> value].                     *)

UpperCase ==
    <<"A", "B", "C", "D", "E", "F", "G", "H", "I", "J", "K", "L", "M",
      "N", "O", "P", "Q", "R", "S", "T", "U", "V", "W", "X", "Y", "Z">>
LowerCase ==
    <<"a", "b", "c", "d", "e", "f", "g", "h", "i", "j", "k", "l", "m",
      "n", "o", "p", "q", "r", "s", "t", "u", "v", "w", "x", "y", "z">>

\* str.lower() on ASCII text
lower(s) ==
    [i \in 1..Len(s) |->
        IF \E n \in 1..26 : UpperCase[n] = s[i]
        THEN LowerCase[CHOOSE n \in 1..26 : UpperCase[n] = s[i]]
        ELSE s[i]]

Header(name, value) == [k |-> name, v |-> value]

\* headers.get(name, default): the value of the first header of that name,
\* the letter case of names ignored.
HeaderGet(headers, name, default) ==
    IF \E n \in 1..Len(headers) : lower(headers[n].k) = lower(name)
    THEN headers[CHOOSE n \in 1..Len(headers) :
                    /\ lower(headers[n].k) = lower(name)
                    /\ \A m \in 1..(n - 1) : lower(headers[m].k) # lower(name)].v
    ELSE default

\* transfer-encoding
TRANSFER_ENCODING ==
    <<"t","r","a","n","s","f","e","r","-","e","n","c","o","d","i","n","g">>

\* connection
CONNECTION ==
    <<"c","o","n","n","e","c","t","i","o","n">>

\* Content-Type
CONTENT_TYPE ==
    <<"C","o","n","t","e","n","t","-","T","y","p","e">>

\* text/event-stream
EVENT_STREAM ==
    <<"t","e","x","t","/","e","v","e","n","t","-","s","t","r","e","a","m">>

\* text/plain
TEXT_PLAIN ==
    <<"t","e","x","t","/","p","l","a","i","n">>

\* location
LOCATION ==
    <<"l","o","c","a","t","i","o","n">>

\* Upstream error: 
UPSTREAM_ERROR ==
    <<"U","p","s","t","r","e","a","m"," ","e","r","r","o","r",":"," ">>

\* Lines 98 and 117 without lower(): the names are compared as they came.
Relayed_CaseSensitive(headers) ==
    SelectSeq(headers, LAMBDA h : h.k \notin {TRANSFER_ENCODING, CONNECTION})

\* Lines 97-99 and 116-118: the upstream headers sent on to the client.
Relayed(headers) ==
    SelectSeq(headers,
              LAMBDA h : lower(h.k) \notin {TRANSFER_ENCODING, CONNECTION})

\* Line 115 testing for equality: a content type with parameters is not
\* taken for an event stream.
is_streaming_Equal(headers) ==
    HeaderGet(headers, CONTENT_TYPE, <<>>) = EVENT_STREAM

\* Lines 114-115
is_streaming(headers) ==
    IsSubstring(EVENT_STREAM, HeaderGet(headers, CONTENT_TYPE, <<>>))

\* json.loads(body) of line 79, body being bytes: the bytes are decoded as
\* UTF-8 first, and UnicodeDecodeError is a ValueError.
json_loads_bytes(b) ==
    IF ~WellFormedUtf8(b) THEN Fail ELSE json_loads(decode(b))

\* Lines 77-84: the body to forward for the body received, or the exception
\* that leaves _proxy.  req_json.get raises AttributeError when the JSON is
\* no object, and startswith when its model is no string.
RewriteRequest(received) ==
    IF received = <<>> \/ MODEL_NAME = <<>> THEN Return(received)
    ELSE
        Only({IF ~req_json.ok THEN Return(received)
              ELSE IF req_json.v.t # "dict" THEN Raise("AttributeError")
              ELSE
                  Only({IF model.t # "str" THEN Raise("AttributeError")
                        ELSE IF StartsWith(model.s, GPT_4O_MINI)
                            THEN Return(encode(json_dumps(
                                     JDict(DictSet(req_json.v.items, MODEL,
                                                   JStr(MODEL_NAME))),
                                     <<",", " ">>, <<":", " ">>)))
                        ELSE Return(received) :
                        model \in {DictGet(req_json.v, MODEL, JStr(<<>>))}}) :
              req_json \in {json_loads_bytes(received)}})

\* Line 95 taking server errors only for errors.
IsHTTPError_ServerOnly(status) == status >= 500

\* Lines 94-95: urlopen raises HTTPError for every status outside 200..299
\* that it does not follow as a redirect.
IsHTTPError(status) == status \notin 200..299

\* Line 94: urlopen follows a redirect status that comes with a Location
\* header by a request of its own, a GET without data: for a GET 301, 302,
\* 303, 307 and 308, for a POST 301, 302 and 303.
Redirects(command, answer) ==
    /\ \E n \in 1..Len(answer.headers) : lower(answer.headers[n].k) = LOCATION
    /\ \/ command = "GET" /\ answer.status \in {301, 302, 303, 307, 308}
       \/ command = "POST" /\ answer.status \in {301, 302, 303}

---------------------------------------------------------------------------
(* The requests, and the answers of the upstream.                          *)

\* {"model":"gpt-4o-mini-2024","messages":[]}
Req_mini ==
    <<"{","\"","m","o","d","e","l","\"",":","\"","g","p","t","-","4","o",
      "-","m","i","n","i","-","2","0","2","4","\"",",","\"","m","e","s","s",
      "a","g","e","s","\"",":","[","]","}">>

\* {"messages": [], "model": "other-model"}
Req_other ==
    <<"{","\"","m","e","s","s","a","g","e","s","\"",":"," ","[","]",","," ",
      "\"","m","o","d","e","l","\"",":"," ","\"","o","t","h","e","r","-",
      "m","o","d","e","l","\"","}">>

\* {"model":"gpt-4o-mini"
Req_cut ==
    <<"{","\"","m","o","d","e","l","\"",":","\"","g","p","t","-","4","o",
      "-","m","i","n","i","\"">>

\* [1]
Req_list ==
    <<"[","1","]">>

\* {"model":null}
Req_null_model ==
    <<"{","\"","m","o","d","e","l","\"",":","n","u","l","l","}">>

\* {"messages":[]}
Req_no_model ==
    <<"{","\"","m","e","s","s","a","g","e","s","\"",":","[","]","}">>

\* {"model":"gpt-4o-mini\xff"}
Req_bad_byte ==
    <<"{","\"","m","o","d","e","l","\"",":","\"","g","p","t","-","4","o",
      "-","m","i","n","i","xFF","\"","}">>

\* GET carries no body; Content-Length absent or 0 gives no body either.
Requests ==
    {[command |-> "GET", body |-> <<>>], [command |-> "POST", body |-> <<>>]}
    \cup {[command |-> "POST", body |-> b] :
             b \in {Req_mini, Req_other, Req_cut, Req_list,
                    Req_null_model, Req_no_model, Req_bad_byte}}

\* {"error":"rate limited"}
Body_error ==
    <<"{","\"","e","r","r","o","r","\"",":","\"","r","a","t","e"," ","l",
      "i","m","i","t","e","d","\"","}">>

\* data: {"choices":null}\n\n
Body_null_choices ==
    <<"d","a","t","a",":"," ","{","\"","c","h","o","i","c","e","s","\"",":",
      "n","u","l","l","}","\n","\n">>

\* data:{"model":"gpt-4o-mini"}\n\n
Body_model ==
    <<"d","a","t","a",":","{","\"","m","o","d","e","l","\"",":","\"","g",
      "p","t","-","4","o","-","m","i","n","i","\"","}","\n","\n">>

Bodies == {Body_error, Body_null_choices, Body_model, ScenarioBody}

\* Content-Type: application/json; Transfer-Encoding: chunked; X-Request-Id: 1
Headers_json ==
    <<Header(<<"C","o","n","t","e","n","t","-","T","y","p","e">>,
             <<"a","p","p","l","i","c","a","t","i","o","n","/","j","s","o","n">>),
      Header(<<"T","r","a","n","s","f","e","r","-","E","n","c","o","d","i",
               "n","g">>,
             <<"c","h","u","n","k","e","d">>),
      Header(<<"X","-","R","e","q","u","e","s","t","-","I","d">>,
             <<"1">>)>>

\* Content-Type: text/event-stream; charset=utf-8; TRANSFER-ENCODING: chunked; connection: close; Cache-Control: no-cache
Headers_sse ==
    <<Header(<<"C","o","n","t","e","n","t","-","T","y","p","e">>,
             <<"t","e","x","t","/","e","v","e","n","t","-","s","t","r","e",
               "a","m",";"," ","c","h","a","r","s","e","t","=","u","t","f",
               "-","8">>),
      Header(<<"T","R","A","N","S","F","E","R","-","E","N","C","O","D","I",
               "N","G">>,
             <<"c","h","u","n","k","e","d">>),
      Header(<<"c","o","n","n","e","c","t","i","o","n">>,
             <<"c","l","o","s","e">>),
      Header(<<"C","a","c","h","e","-","C","o","n","t","r","o","l">>,
             <<"n","o","-","c","a","c","h","e">>)>>

\* content-type: text/event-stream; Connection: keep-alive; Keep-Alive: timeout=5
Headers_lower_sse ==
    <<Header(<<"c","o","n","t","e","n","t","-","t","y","p","e">>,
             <<"t","e","x","t","/","e","v","e","n","t","-","s","t","r","e",
               "a","m">>),
      Header(<<"C","o","n","n","e","c","t","i","o","n">>,
             <<"k","e","e","p","-","a","l","i","v","e">>),
      Header(<<"K","e","e","p","-","A","l","i","v","e">>,
             <<"t","i","m","e","o","u","t","=","5">>)>>

\* Content-Type: Text/Event-Stream
Headers_title_sse ==
    <<Header(<<"C","o","n","t","e","n","t","-","T","y","p","e">>,
             <<"T","e","x","t","/","E","v","e","n","t","-","S","t","r","e",
               "a","m">>)>>

\* Location: /other; Connection: close
Headers_location ==
    <<Header(<<"L","o","c","a","t","i","o","n">>,
             <<"/","o","t","h","e","r">>),
      Header(<<"C","o","n","n","e","c","t","i","o","n">>,
             <<"c","l","o","s","e">>)>>

\* no header
Headers_none == <<>>

HeaderBlocks ==
    {Headers_json, Headers_sse, Headers_lower_sse, Headers_title_sse,
     Headers_location, Headers_none}

\* <urlopen error [Errno 111] Connection refused>
Refused ==
    <<"<","u","r","l","o","p","e","n"," ","e","r","r","o","r"," ","[","E",
      "r","r","n","o"," ","1","1","1","]"," ","C","o","n","n","e","c","t",
      "i","o","n"," ","r","e","f","u","s","e","d",">">>

\* timed out
TimedOut ==
    <<"t","i","m","e","d"," ","o","u","t">>

Statuses == {200, 302, 307, 429}

\* What urlopen can meet: a response of the upstream, a failure to reach it
\* (URLError, OSError), or a status line that is none (BadStatusLine, an
\* HTTPException that is no OSError).
Answers ==
    {[kind |-> "http", status |-> s, headers |-> h, body |-> b] :
        s \in Statuses, h \in HeaderBlocks, b \in Bodies}
    \cup {[kind |-> "URLError", reason |-> Refused],
          [kind |-> "OSError", reason |-> TimedOut],
          [kind |-> "BadStatusLine"]}

---------------------------------------------------------------------------
(* SpecProxy: _proxy handling one request.  The body of a streamed         *)
(* response is read by the loop of _stream_sse line by line.               *)

MaxRedirects == 1

ProxyInit ==
    /\ MODEL_NAME \in ModelNames
    /\ request \in Requests
    /\ body = <<>>
    /\ opened = <<>>
    /\ resp = NoResponse
    /\ heads = <<>>
    /\ workers = <<>>
    /\ upstream = <<>>
    /\ resp_closed = FALSE
    /\ saw_done = FALSE
    /\ wfile = <<>>
    /\ client_open = TRUE
    /\ pc = "proxy"
    /\ arg = <<>>
    /\ once = NoOutcome
    /\ twice = NoOutcome
    /\ fpc = "idle"

\* Lines 73-84: the body is read and, with a replacement model, rewritten.
\* An AttributeError of lines 80 is not caught and leaves _proxy.
ReadBody ==
    /\ pc = "proxy"
    /\ \E outcome \in {RewriteRequest(request.body)} :
        IF outcome.exc = "" THEN body' = outcome.out /\ pc' = "urlopen"
        ELSE pc' = "raised" /\ UNCHANGED body
    /\ UNCHANGED <<MODEL_NAME, request, opened, resp, heads, workers,
                   upstream, resp_closed, saw_done, wfile, client_open,
                   fixvars>>

\* The request urlopen sends next: the one built in lines 86-91, or after a
\* redirect its own GET.
NextRequest ==
    IF opened = <<>> THEN [command |-> request.command, data |-> body]
    ELSE [command |-> "GET", data |-> <<>>]

\* Lines 93-95, 106 and 113: urlopen sends a request and meets answer.  It
\* follows a redirect by itself, returns a response with a status in
\* 200..299, and raises HTTPError, URLError or OSError, or BadStatusLine.
Open(answer) ==
    /\ pc = "urlopen"
    /\ opened' = Append(opened, NextRequest)
    /\ resp' = answer
    /\ pc' = CASE answer.kind \in {"URLError", "OSError"} -> "failure"
               [] answer.kind = "BadStatusLine" -> "raised"
               [] Redirects(NextRequest.command, answer) -> "urlopen"
               [] IsHTTPError(answer.status) -> "error"
               [] OTHER -> "respond"
    /\ pc' = "urlopen" => Len(opened) < MaxRedirects
    /\ UNCHANGED <<MODEL_NAME, request, body, heads, workers,
                   upstream, resp_closed, saw_done, wfile, client_open,
                   fixvars>>

\* Lines 95-105: the error is relayed.  e.read() returns the body, or raises
\* when the upstream fails in the middle of it; a BrokenPipeError of the
\* write is passed over.
RelayError ==
    /\ pc = "error"
    /\ heads' = Append(heads, [status |-> resp.status,
                               headers |-> Relayed(resp.headers)])
    /\ \/ \E n \in 0..1 :
            /\ wfile' = Written(wfile, <<resp.body>>, n)
            /\ client_open' = (n = 1)
            /\ pc' = "done"
       \/ /\ pc' = "raised"
          /\ UNCHANGED <<wfile, client_open>>
    /\ UNCHANGED <<MODEL_NAME, request, body, opened, resp, workers,
                   upstream, resp_closed, saw_done, fixvars>>

\* Lines 106-111: the proxy's own 502.  The write is in no try statement.
BadGateway ==
    /\ pc = "failure"
    /\ heads' = Append(heads, [status |-> 502,
                               headers |-> <<Header(CONTENT_TYPE, TEXT_PLAIN)>>])
    /\ \E n \in 0..1 :
        /\ wfile' = Written(wfile, <<UPSTREAM_ERROR \o resp.reason \o LF>>, n)
        /\ client_open' = (n = 1)
        /\ pc' = IF n = 1 THEN "done" ELSE "raised"
    /\ UNCHANGED <<MODEL_NAME, request, body, opened, resp, workers,
                   upstream, resp_closed, saw_done, fixvars>>

\* Lines 113-122: status and headers of a response are sent, and the mode is
\* chosen by the content type.
SendHead ==
    /\ pc = "respond"
    /\ heads' = Append(heads, [status |-> resp.status,
                               headers |-> Relayed(resp.headers)])
    /\ pc' = IF is_streaming(resp.headers) THEN "stream" ELSE "passthrough"
    /\ UNCHANGED <<MODEL_NAME, request, body, opened, resp, workers,
                   upstream, resp_closed, saw_done, wfile, client_open,
                   fixvars>>

\* Lines 123-127: the body is copied.  resp.read() returns it, or raises when
\* the upstream fails in the middle of it; a BrokenPipeError of the write is
\* passed over.
Passthrough ==
    /\ pc = "passthrough"
    /\ \/ \E n \in 0..1 :
            /\ wfile' = Written(wfile, <<resp.body>>, n)
            /\ client_open' = (n = 1)
            /\ pc' = "done"
       \/ /\ pc' = "raised"
          /\ UNCHANGED <<wfile, client_open>>
    /\ UNCHANGED <<MODEL_NAME, request, body, opened, resp, heads, workers,
                   upstream, resp_closed, saw_done, fixvars>>

\* Line 133: the lines resp yields, and whether one is left.
RespLines == LinesOf(resp.body)
MoreLines == LinesRead < Len(RespLines)

\* Lines 121-122 and 129-156: _stream_sse on resp.
StreamSentinel ==
    pc = "stream" /\ MoreLines
        /\ \E sent \in {RespLines[LinesRead + 1]} : ForwardSentinel(sent)
StreamLine ==
    pc = "stream" /\ MoreLines
        /\ \E sent \in {RespLines[LinesRead + 1]} : ForwardLine(sent)
StreamEnd == pc = "stream" /\ ~MoreLines /\ EndOfStream

ProxyNext ==
    \/ ReadBody
    \/ \E answer \in Answers : Open(answer)
    \/ RelayError
    \/ BadGateway
    \/ SendHead
    \/ Passthrough
    \/ StreamSentinel
    \/ StreamLine
    \/ StreamEnd
    \/ ReadFails

SpecProxy == ProxyInit /\ [][ProxyNext]_vars

---------------------------------------------------------------------------
(* The properties of _proxy, checked under SpecProxy.                      *)

\* C11: when the upstream answers with an error status, whatever its content
\* type, the client is sent that status and the body of the error as it is:
\* the body does not go through _stream_sse, and no data: [DONE] follows it.
C11_ErrorRelayed ==
    (pc = "done" /\ client_open /\ resp.kind = "http" /\ resp.status >= 400) =>
        /\ Len(heads) = 1
        /\ heads[1].status = resp.status
        /\ wfile = resp.body
        /\ upstream = <<>>
        /\ ~resp_closed

\* C11, witness: a 429 whose content type is text/event-stream and whose body
\* holds data lines has reached the client with its body as it was.
C11_Witness ==
    /\ pc = "done"
    /\ client_open
    /\ resp.kind = "http"
    /\ resp.status = 429
    /\ is_streaming(resp.headers)
    /\ resp.body = ScenarioBody
    /\ heads[1].status = 429
    /\ wfile = ScenarioBody

\* _proxy is over and the upstream failed at the transport: it could not be
\* reached, or the read of a body raised.  With the client connected, aborted
\* is reached by a ConnectionResetError of the upstream read only, and raised
\* outside the streaming mode by a failed read only.
TransportFailed ==
    /\ pc \in {"done", "raised", "aborted"}
    /\ client_open
    /\ \/ resp.kind \in {"URLError", "OSError"}
       \/ /\ resp.kind = "http"
          /\ \/ pc = "aborted"
             \/ pc = "raised" /\ heads # <<>>
                    /\ (IsHTTPError(resp.status) \/ ~is_streaming(resp.headers))

\* C12: whenever the upstream fails at the transport, before or after its
\* response has begun, the client is sent the proxy's own 502 with a
\* plain-text body that explains it.
C12_TransportFailure502 ==
    TransportFailed =>
        /\ \E n \in 1..Len(heads) :
              /\ heads[n].status = 502
              /\ HeaderGet(heads[n].headers, CONTENT_TYPE, <<>>) = TEXT_PLAIN
        /\ IsSubstring(UPSTREAM_ERROR, wfile)

\* _proxy has returned or an exception has left it.
ProxyOver == pc \in {"done", "raised", "aborted"}

\* C13: when the handling of an inbound request is over, exactly one response
\* head has been sent to the client, whatever the body of the request and
\* whatever the upstream did.
C13_ExactlyOneResponse == ProxyOver => Len(heads) = 1

\* C17: for one inbound request urlopen sends at most one request to the
\* upstream; nothing is retried or sent again.
C17_AtMostOneUpstreamRequest == Len(opened) <= 1

\* The body received is well-formed JSON, an object whose model is a string
\* that starts with gpt-4o-mini.
AsksForMini(received) ==
    \E req_json \in {json_loads_bytes(received)} :
        /\ req_json.ok
        /\ req_json.v.t = "dict"
        /\ \E model \in {DictGet(req_json.v, MODEL, JStr(<<>>))} :
              model.t = "str" /\ StartsWith(model.s, GPT_4O_MINI)

\* forwarded is JSON that differs from the JSON received in its model only,
\* which is the replacement.
OnlyModelChanged(received, forwarded) ==
    \E before \in {json_loads_bytes(received)},
       after \in {json_loads_bytes(forwarded)} :
        /\ after.ok
        /\ after.v = JDict(DictSet(before.v.items, MODEL, JStr(MODEL_NAME)))

\* C14: when the handling of a request with a body is over, the body has
\* been forwarded upstream: with only its model changed if a replacement is
\* configured and the body asks for a gpt-4o-mini model, and byte for byte
\* in every other case, whether the body is JSON or not.
C14_BodyForwarded ==
    (ProxyOver /\ request.body # <<>>) =>
        /\ opened # <<>>
        /\ IF MODEL_NAME # <<>> /\ AsksForMini(request.body)
           THEN OnlyModelChanged(request.body, opened[1].data)
           ELSE opened[1].data = request.body

\* The same for the bodies that json.loads rejects or that are JSON objects
\* with a string, or with nothing, for their model.
C14_BodyForwardedWhenObject ==
    (ProxyOver /\ request.body # <<>>
        /\ \E req_json \in {json_loads_bytes(request.body)} :
              req_json.ok =>
                  /\ req_json.v.t = "dict"
                  /\ DictGet(req_json.v, MODEL, JStr(<<>>)).t = "str") =>
        /\ opened # <<>>
        /\ IF MODEL_NAME # <<>> /\ AsksForMini(request.body)
           THEN OnlyModelChanged(request.body, opened[1].data)
           ELSE opened[1].data = request.body

\* C15: a response with a status in 200..299 that has reached the client in
\* full went through _stream_sse, which read all its lines, closed it and left a
\* data: [DONE] event in the output, if and only if its content type
\* contains text/event-stream; any other response was written as it is,
\* unread by _stream_sse and with nothing added.
C15_StreamingIffEventStream ==
    (pc = "done" /\ client_open /\ resp.kind = "http"
        /\ resp.status \in 200..299) =>
        IF IsSubstring(EVENT_STREAM,
                       HeaderGet(resp.headers, CONTENT_TYPE, <<>>))
        THEN /\ resp_closed
             /\ ~MoreLines
             /\ DoneEvents(wfile) # {}
        ELSE /\ ~resp_closed
             /\ upstream = <<>>
             /\ ~saw_done
             /\ wfile = resp.body

\* C15, witness: a 200 whose content type is text/event-stream; charset=utf-8
\* has been streamed, its tool call fixed and its sentinel forwarded.
C15_Witness ==
    /\ pc = "done"
    /\ client_open
    /\ resp.kind = "http"
    /\ resp.status = 200
    /\ resp.headers = Headers_sse
    /\ resp.body = ScenarioBody
    /\ MODEL_NAME = <<>>
    /\ IsSubstring(DATA_SP \o Scenario_payload_out \o LF, wfile)
    /\ DoneEvents(wfile) # {}
    /\ wfile # resp.body

\* A 200 whose content type is Text/Event-Stream, which does not contain
\* text/event-stream, has been copied as it is.
C15_PassthroughReached ==
    /\ pc = "done"
    /\ client_open
    /\ resp.kind = "http"
    /\ resp.status = 200
    /\ resp.headers = Headers_title_sse
    /\ resp.body = ScenarioBody
    /\ wfile = ScenarioBody

\* The names of the headers that are not relayed, in lower case.
HopByHop == {TRANSFER_ENCODING, CONNECTION}

\* C16: in the head sent for an upstream response, whether an error, a
\* stream or a plain body, no header is named Transfer-Encoding or
\* Connection in any letter case, and the headers sent are the other
\* headers of the upstream, each one, in their order.
C16_HeadersFiltered ==
    (heads # <<>> /\ resp.kind = "http") =>
        /\ \A n \in 1..Len(heads[1].headers) :
              lower(heads[1].headers[n].k) \notin HopByHop
        /\ \A n \in 1..Len(resp.headers) :
              lower(resp.headers[n].k) \notin HopByHop =>
                  \E m \in 1..Len(heads[1].headers) :
                      heads[1].headers[m] = resp.headers[n]
        /\ \A m \in 1..Len(heads[1].headers) :
              \E n \in 1..Len(resp.headers) :
                  /\ heads[1].headers[m] = resp.headers[n]
                  /\ m <= n
        /\ Len(heads[1].headers) =
              Cardinality({n \in 1..Len(resp.headers) :
                              lower(resp.headers[n].k) \notin HopByHop})

\* C16, witness: a streamed response that came with TRANSFER-ENCODING and
\* connection headers has been sent without them and with its other headers.
C16_Witness ==
    /\ pc = "done"
    /\ client_open
    /\ resp.kind = "http"
    /\ resp.status = 200
    /\ resp.headers = Headers_sse
    /\ heads # <<>>
    /\ heads[1].headers # <<>>
    /\ Len(heads[1].headers) = Len(resp.headers) - 2

---------------------------------------------------------------------------
(* SpecThreads: ThreadedHTTPServer runs each request in a thread of its    *)
(* own, and the threads are in _stream_sse at once.  The steps of the      *)
(* handlers interleave line by line.  The clients stay connected and the   *)
(* reads of the upstream succeed, so that what a handler writes when it    *)
(* runs alone is one value.                                                *)

MaxThreads == 2

\* The upstream responses of the handlers, as the lines resp yields.
Stream_call == <<DATA \o Payload_function, <<>>, DONE_LINE, <<>>>>
Stream_no_done == <<DATA_SP \o Payload_mini>>
Stream_raises == <<DATA_SP \o Payload_null_choices, DONE_LINE>>
Streams == {Stream_call, Stream_no_done, Stream_raises}

\* Line 131 with the flag kept in one place for all the handlers.
Flag_Shared(h) == 1

\* Line 131: saw_done is a local variable of the call of _stream_sse, so the
\* flag handler h reads and writes is its own.
Flag(h) == h

\* Lines 163-164, 129: each handler has its response, its client and its
\* position; MODEL_NAME was set when the module was loaded (line 25).
ThreadsInit ==
    /\ MODEL_NAME \in ModelNames
    /\ workers \in [1..MaxThreads ->
                      {[lines |-> l, read |-> 0, saw_done |-> FALSE,
                        wfile |-> <<>>, pc |-> "start"] : l \in Streams}]
    /\ arg = <<>>
    /\ once = NoOutcome
    /\ twice = NoOutcome
    /\ fpc = "idle"
    /\ StreamIdle
    /\ request = NoRequest
    /\ body = <<>>
    /\ opened = <<>>
    /\ resp = NoResponse
    /\ heads = <<>>

\* Line 131: handler h enters _stream_sse.
Enter(h) ==
    /\ workers[h].pc = "start"
    /\ workers' = [workers EXCEPT ![Flag(h)].saw_done = FALSE,
                                  ![h].pc = "stream"]
    /\ UNCHANGED <<MODEL_NAME, fixvars, streamvars, proxyvars>>

\* Lines 133-139: handler h reads a sentinel line.
HandlerSentinel(h) ==
    /\ workers[h].pc = "stream"
    /\ workers[h].read < Len(workers[h].lines)
    /\ workers[h].lines[workers[h].read + 1] \in Sentinels
    /\ workers' = [workers EXCEPT ![Flag(h)].saw_done = TRUE,
                                  ![h].wfile = @ \o DONE_EVENT,
                                  ![h].read = @ + 1]
    /\ UNCHANGED <<MODEL_NAME, fixvars, streamvars, proxyvars>>

\* Lines 133-135, 140-145: handler h reads any other line.
HandlerLine(h) ==
    /\ workers[h].pc = "stream"
    /\ workers[h].read < Len(workers[h].lines)
    /\ workers[h].lines[workers[h].read + 1] \notin Sentinels
    /\ \E outcome \in {fix_sse_line(workers[h].lines[workers[h].read + 1])} :
        IF outcome.exc = ""
        THEN workers' =
                [workers EXCEPT
                    ![h].wfile = Written(@, Writes(outcome.out),
                                         Len(Writes(outcome.out))),
                    ![h].read = @ + 1]
        ELSE workers' = [workers EXCEPT ![h].pc = "raised"]
    /\ UNCHANGED <<MODEL_NAME, fixvars, streamvars, proxyvars>>

\* Lines 133, 148-156: the response of handler h is exhausted.
HandlerEnd(h) ==
    /\ workers[h].pc = "stream"
    /\ workers[h].read = Len(workers[h].lines)
    /\ workers' =
          [workers EXCEPT
              ![h].wfile = IF workers[Flag(h)].saw_done THEN @
                           ELSE @ \o DONE_EVENT,
              ![h].pc = "done"]
    /\ UNCHANGED <<MODEL_NAME, fixvars, streamvars, proxyvars>>

ThreadsNext ==
    \E h \in 1..MaxThreads :
        \/ Enter(h)
        \/ HandlerSentinel(h)
        \/ HandlerLine(h)
        \/ HandlerEnd(h)

SpecThreads == ThreadsInit /\ [][ThreadsNext]_vars

\* Lines 129-156 run by one handler with no other: where it is and what it
\* has written once it has read the first n of its lines and, with over,
\* left the loop at their end.
RECURSIVE Alone(_, _, _)
Alone(lines, n, over) ==
    IF over
    THEN Only({
        IF before.pc = "raised" THEN before
        ELSE IF before.saw_done THEN [before EXCEPT !.pc = "done"]
        ELSE [before EXCEPT !.pc = "done", !.wfile = @ \o DONE_EVENT] :
        before \in {Alone(lines, n, FALSE)}})
    ELSE IF n = 0 THEN [pc |-> "stream", saw_done |-> FALSE, wfile |-> <<>>]
    ELSE Only({
        IF before.pc = "raised" THEN before
        ELSE IF lines[n] \in Sentinels
            THEN [before EXCEPT !.saw_done = TRUE, !.wfile = @ \o DONE_EVENT]
        ELSE Only({IF outcome.exc # "" THEN [before EXCEPT !.pc = "raised"]
                   ELSE [before EXCEPT
                            !.wfile = @ \o outcome.out \o LF \o
                                (IF StartsWith(outcome.out, DATA_SP)
                                 THEN LF ELSE <<>>)] :
                   outcome \in {fix_sse_line(lines[n])}}) :
        before \in {Alone(lines, n - 1, FALSE)}})

---------------------------------------------------------------------------
(* The property of the handler threads, checked under SpecThreads.         *)

\* C20: however the steps of the handlers interleave, each handler is where
\* it would be, and its client has been sent what it would have been sent,
\* had the handler read the same lines with no other handler running.
C20_Independent ==
    \A h \in 1..Len(workers) :
        workers[h].pc # "start" =>
            \E alone \in {Alone(workers[h].lines,
                                IF workers[h].pc = "raised"
                                THEN workers[h].read + 1 ELSE workers[h].read,
                                workers[h].pc = "done")} :
                /\ workers[h].pc = alone.pc
                /\ workers[h].wfile = alone.wfile
                /\ workers[h].saw_done = alone.saw_done

\* C20, witness: the first handler has forwarded a sentinel and is still in
\* its loop, while the second, whose upstream sent none, has ended its
\* stream with the sentinel of its own.
C20_Witness ==
    /\ Len(workers) >= 2
    /\ workers[1].pc = "stream"
    /\ workers[1].saw_done
    /\ workers[1].read < Len(workers[1].lines)
    /\ workers[2].pc = "done"
    /\ ~workers[2].saw_done
    /\ workers[2].lines = Stream_no_done
    /\ DoneEvents(workers[2].wfile) # {}

====
